---- MODULE Spec2Model ----
(***************************************************************************)
(* A model of prettify-cmark: the event-driven CommonMark pretty printer   *)
(* (src/src/printer.rs) and the indentation writer it drives               *)
(* (src/src/writer.rs).  The output sink is a sequence of characters; the  *)
(* handlers of push_event are operators on a record holding the printer's  *)
(* fields, composed in the order of the code, each primitive skipping its  *)
(* work once a sink write has failed (the ? of the code)  .                *)
(***************************************************************************)
EXTENDS Integers, Sequences, FiniteSets, TLC

VARIABLES
    out,          \* Output.inner: the characters accepted by the sink so far
    needs_space,  \* Output.needs_space: pending (deferred) spaces
    frames,       \* Writer.frames: the stack of block contexts, outermost first
    needs_break,  \* PrettyPrinter.needs_break
    prefix,       \* Writer.prefix: fixed at construction
    failAt,       \* the sink: the number of write_str calls it accepts before failing
    attempts,     \* the sink: the number of write_str calls made on it
    err,          \* the Result of push_events so far: TRUE once a write failed
    deferredAt,   \* positions of out filled by the flush of pending spaces
    last,         \* the event pushed by the latest push_event call
    pushed,       \* the number of events pushed so far
    open          \* the spans of the event stream that are started and not ended

vars == <<out, needs_space, frames, needs_break, prefix, failAt, attempts, err,
          deferredAt, last, pushed, open>>

----------------------------------------------------------------------------
(* Bounds of the model *)

\* events pushed in one run of Spec (any event, in any order)
MaxEvents == 2
\* events pushed in one run of SpecDoc (a properly nested stream)
MaxDocEvents == 6
\* spans open at once in SpecDoc
MaxDepth == 4
\* events pushed in one run of SpecFail (a sink that fails)
MaxFailEvents == 2
\* the latest write_str call at which the sink of SpecFail fails
MaxFailAt == 3

\* the sink never fails: String, the sink of prettify
NoFail == 0 - 1

----------------------------------------------------------------------------
(* Characters and strings: a string is a sequence of one-character strings *)

NL == "\n"
SP == " "
\* the character U+0060, which a TLA+ string cannot hold
Backtick == "BACKTICK"

RECURSIVE Repeat(_, _)
\* str::repeat
Repeat(c, n) == IF n <= 0 THEN <<>> ELSE <<c>> \o Repeat(c, n - 1)

DigitChars == <<"0", "1", "2", "3", "4", "5", "6", "7", "8", "9">>

RECURSIVE ToDigits(_)
\* Display for usize: the decimal digits of n
ToDigits(n) ==
    IF n < 10 THEN <<DigitChars[n + 1]>>
    ELSE ToDigits(n \div 10) \o <<DigitChars[(n % 10) + 1]>>

RECURSIVE Split(_)
\* str::split('\n'): the pieces between line feeds; one (empty) piece for ""
Split(text) ==
    IF \A i \in 1..Len(text) : text[i] # NL THEN <<text>>
    ELSE LET i == CHOOSE j \in 1..Len(text) :
                      text[j] = NL /\ \A k \in 1..(j - 1) : text[k] # NL
         IN <<SubSeq(text, 1, i - 1)>> \o Split(SubSeq(text, i + 1, Len(text)))

----------------------------------------------------------------------------
(* Frames, tags and events *)

\* Frame::ListItem(None), Frame::ListItem(Some(index)), Frame::BlockQuote
ListItemNone == [kind |-> "ListItem", some |-> FALSE, index |-> 0]
ListItemSome(index) == [kind |-> "ListItem", some |-> TRUE, index |-> index]
BlockQuoteFrame == [kind |-> "BlockQuote", some |-> FALSE, index |-> 0]

\* pulldown_cmark::Tag; num is the header level or the list's start, text the
\* code block's info string or the link's destination
Tag(kind, some, num, text, title) ==
    [kind |-> kind, some |-> some, num |-> num, text |-> text, title |-> title]
PlainTag(kind) == Tag(kind, FALSE, 0, <<>>, <<>>)
NoTag == PlainTag("None")

\* pulldown_cmark::Event
Event(type, tag, text) == [type |-> type, tag |-> tag, text |-> text]
NoEvent == Event("None", NoTag, <<>>)

\* The printer's fields as one record
State(o, ns, fr, nb, at, e, d) ==
    [out |-> o, needs_space |-> ns, frames |-> fr, needs_break |-> nb,
     attempts |-> at, err |-> e, deferredAt |-> d]

(* the record of the current state *)
Cur == State(out, needs_space, frames, needs_break, attempts, err, deferredAt)

----------------------------------------------------------------------------
(* The sink: W: fmt::Write *)

\* inner.write_str(s): the sink accepts the text, or fails and accepts none
inner_write_str(st, s) ==
    IF st.err THEN st
    ELSE IF st.attempts = failAt
         THEN [st EXCEPT !.attempts = @ + 1, !.err = TRUE]
         ELSE [st EXCEPT !.attempts = @ + 1, !.out = @ \o s]

----------------------------------------------------------------------------
(* Output (writer.rs) *)

\* the block under needs_space > 0 of Output::write_text: the pending
\* spaces are written and the count is reset
flush_spaces(st) ==
    IF st.err \/ st.needs_space = 0 THEN st
    ELSE LET w == inner_write_str(st, Repeat(SP, st.needs_space))
         IN IF w.err THEN w
            ELSE [w EXCEPT !.needs_space = 0,
                           !.deferredAt = @ \cup ((Len(st.out) + 1)..Len(w.out))]

\* Output::write_text
write_text(st, text) == inner_write_str(flush_spaces(st), text)

\* mutant: the pending spaces survive the hard break
write_hard_break_keep(st) == inner_write_str(st, <<NL>>)

\* Output::write_hard_break
write_hard_break(st) ==
    IF st.err THEN st
    ELSE inner_write_str([st EXCEPT !.needs_space = 0], <<NL>>)

\* mutant: the pending spaces survive the soft break
write_soft_break_keep(st) == inner_write_str(st, <<SP>>)

\* Output::write_soft_break
write_soft_break(st) ==
    IF st.err THEN st
    ELSE inner_write_str([st EXCEPT !.needs_space = 0], <<SP>>)

----------------------------------------------------------------------------
(* Writer (writer.rs) *)

\* Writer::push_frame
push_frame(st, frame) ==
    IF st.err THEN st ELSE [st EXCEPT !.frames = Append(@, frame)]

\* Writer::pop_frame: Vec::pop, which leaves an empty stack empty
pop_frame(st) ==
    IF st.err \/ st.frames = <<>> THEN st
    ELSE [st EXCEPT !.frames = SubSeq(@, 1, Len(@) - 1)]

\* Writer::write_non_breaking_space
write_non_breaking_space(st) ==
    IF st.err THEN st ELSE [st EXCEPT !.needs_space = @ + 1]

\* mutant: the digits of the ordinal and three
ordered_indent_digits(index) == Len(ToDigits(index)) + 3

\* the indentation a ListItem(Some(index)) frame asks for
ordered_indent(index) == (index \div 10) + 3

\* one iteration of the loop of Writer::write_indent
indent_frame(st, frame) ==
    IF st.err THEN st
    ELSE IF frame.kind = "BlockQuote"
         THEN LET w == write_text(st, <<">">>)
              IN IF w.err THEN w ELSE [w EXCEPT !.needs_space = @ + 1]
         ELSE IF frame.some
              THEN [st EXCEPT !.needs_space = @ + ordered_indent(frame.index)]
              ELSE [st EXCEPT !.needs_space = @ + 2]

RECURSIVE indent_frames(_, _)
\* the loop of Writer::write_indent over frames[i..], outermost first
indent_frames(st, i) ==
    IF i > Len(st.frames) THEN st
    ELSE indent_frames(indent_frame(st, st.frames[i]), i + 1)

\* Writer::write_indent: the prefix goes to the sink directly
write_indent(st) == indent_frames(inner_write_str(st, prefix), 1)

RECURSIVE write_pieces(_, _)
\* write!(self.writer, ...): Writer::write_str, once per piece of the format
write_pieces(st, pieces) ==
    IF pieces = <<>> THEN st
    ELSE write_pieces(write_text(st, Head(pieces)), Tail(pieces))

----------------------------------------------------------------------------
(* PrettyPrinter (printer.rs) *)

\* the assignment self.needs_break = b, reached only if no ? returned before
set_needs_break(st, b) ==
    IF st.err THEN st ELSE [st EXCEPT !.needs_break = b]

\* the body of the if of PrettyPrinter::flush_break
write_blank_line(st) ==
    write_indent(write_hard_break(write_indent(write_hard_break(st))))

\* mutant: the flag is not cleared
flush_break_no_clear(st) ==
    IF st.needs_break THEN write_blank_line(st) ELSE st

\* PrettyPrinter::flush_break
flush_break(st) ==
    set_needs_break(IF st.needs_break THEN write_blank_line(st) ELSE st, FALSE)

\* Start(Paragraph)
start_paragraph(st) == flush_break(st)

\* Start(Rule)
start_rule(st) == write_text(flush_break(st), <<"-", "-", "-">>)

\* Start(Header(indent))
start_header(st, indent) ==
    write_non_breaking_space(write_text(flush_break(st), Repeat("#", indent)))

\* Start(List(start))
start_list(st, tag) ==
    push_frame(flush_break(st),
               IF tag.some THEN ListItemSome(tag.num) ELSE ListItemNone)

\* mutant: the ordinal is pushed back as it was
next_item_frame_same(index) == ListItemSome(index)

\* the frame Start(Item) pushes back for an ordered list
next_item_frame(index) == ListItemSome(index + 1)

\* mutant: the break is flushed with the frame of the list on the stack
start_item_unordered_own(st) ==
    write_non_breaking_space(
        write_text(flush_break(push_frame(st, ListItemNone)), <<"-">>))

\* Start(Item), the arm Some(Frame::ListItem(None))
start_item_unordered(st) ==
    push_frame(write_non_breaking_space(write_text(flush_break(st), <<"-">>)),
               ListItemNone)

\* Start(Item), the arm Some(Frame::ListItem(Some(index)))
start_item_ordered(st, index) ==
    push_frame(
        write_non_breaking_space(
            write_pieces(flush_break(st), <<ToDigits(index), <<".">>>>)),
        next_item_frame(index))

\* mutant: a frame that is no ListItem frame is left on the stack
start_item_repush(st) ==
    IF st.frames = <<>> THEN st
    ELSE LET top == st.frames[Len(st.frames)]
             popped == pop_frame(st)
         IN IF top.kind = "ListItem"
            THEN IF top.some THEN start_item_ordered(popped, top.index)
                 ELSE start_item_unordered(popped)
            ELSE st

\* Start(Item): the top frame is popped before the match
start_item(st) ==
    IF st.frames = <<>> THEN st
    ELSE LET top == st.frames[Len(st.frames)]
             popped == pop_frame(st)
         IN IF top.kind = "ListItem"
            THEN IF top.some THEN start_item_ordered(popped, top.index)
                 ELSE start_item_unordered(popped)
            ELSE popped

\* Start(BlockQuote)
start_block_quote(st) ==
    push_frame(write_non_breaking_space(write_text(flush_break(st), <<">">>)),
               BlockQuoteFrame)

\* Start(CodeBlock(note))
start_code_block(st, note) ==
    write_indent(write_hard_break(
        write_pieces(flush_break(st), <<<<Backtick, Backtick, Backtick>>, note>>)))

\* Start(Emphasis), Start(Strong), Start(Code)
start_emphasis(st) == write_text(st, <<"*">>)
start_strong(st) == write_text(st, <<"*", "*">>)
start_code(st) == write_text(st, <<Backtick>>)

\* Start(Link(_, _)), Start(Image(_, _))
start_link(st) == write_text(st, <<"[">>)
start_image(st) == write_text(st, <<"!", "[">>)

\* Start of FootnoteDefinition, Table, TableHead, TableRow, TableCell
start_unsupported(st) == st

\* the match of Event::Start(tag)
start_tag(st, tag) ==
    CASE tag.kind = "Paragraph" -> start_paragraph(st)
      [] tag.kind = "Rule" -> start_rule(st)
      [] tag.kind = "Header" -> start_header(st, tag.num)
      [] tag.kind = "List" -> start_list(st, tag)
      [] tag.kind = "Item" -> start_item(st)
      [] tag.kind = "BlockQuote" -> start_block_quote(st)
      [] tag.kind = "CodeBlock" -> start_code_block(st, tag.text)
      [] tag.kind = "Emphasis" -> start_emphasis(st)
      [] tag.kind = "Strong" -> start_strong(st)
      [] tag.kind = "Code" -> start_code(st)
      [] tag.kind = "Link" -> start_link(st)
      [] tag.kind = "Image" -> start_image(st)
      [] OTHER -> start_unsupported(st)

\* End(Paragraph), End(Rule), End(Header(_)), End(Item)
end_block(st) == set_needs_break(st, TRUE)

\* mutant: the frame is left on the stack
end_container_keep(st) == set_needs_break(st, TRUE)

\* End(List(_)), End(BlockQuote)
end_container(st) == set_needs_break(pop_frame(st), TRUE)

\* End(CodeBlock(_))
end_code_block(st) == set_needs_break(write_text(st, <<Backtick, Backtick, Backtick>>), TRUE)

\* mutant: strong emphasis is closed with underscores
end_strong_underscore(st) == write_text(st, <<"_", "_">>)

\* End(Emphasis), End(Strong), End(Code)
end_emphasis(st) == write_text(st, <<"*">>)
end_strong(st) == write_text(st, <<"*", "*">>)
end_code(st) == write_text(st, <<Backtick>>)

\* mutant: the title is never written
end_link_untitled(st, url, title) ==
    write_pieces(st, <<<<"]", "(">>, url, <<")">>>>)

\* End(Link(url, title)) | End(Image(url, title))
end_link(st, url, title) ==
    IF title = <<>>
    THEN write_pieces(st, <<<<"]", "(">>, url, <<")">>>>)
    ELSE write_pieces(st, <<<<"]", "(">>, url, <<" ", "\"">>, title, <<"\"", ")">>>>)

\* End of FootnoteDefinition, Table, TableHead, TableRow, TableCell
end_unsupported(st) == st

\* the match of Event::End(tag)
end_tag(st, tag) ==
    CASE tag.kind \in {"Paragraph", "Rule", "Header", "Item"} -> end_block(st)
      [] tag.kind \in {"List", "BlockQuote"} -> end_container(st)
      [] tag.kind = "CodeBlock" -> end_code_block(st)
      [] tag.kind = "Emphasis" -> end_emphasis(st)
      [] tag.kind = "Strong" -> end_strong(st)
      [] tag.kind = "Code" -> end_code(st)
      [] tag.kind \in {"Link", "Image"} -> end_link(st, tag.text, tag.title)
      [] OTHER -> end_unsupported(st)

\* mutant: the lines after the first are written flush-left
text_line_flush_left(st, i, line) ==
    write_text(IF i > 0 THEN write_hard_break(st) ELSE st, line)

\* one iteration of the loop of Event::Text
text_line(st, i, line) ==
    write_text(IF i > 0 THEN write_indent(write_hard_break(st)) ELSE st, line)

RECURSIVE text_lines(_, _, _)
\* the loop of Event::Text over lines[(i + 1)..]
text_lines(st, lines, i) ==
    IF i >= Len(lines) THEN st
    ELSE text_lines(text_line(st, i, lines[i + 1]), lines, i + 1)

\* Event::Text(text)
event_text(st, text) == text_lines(st, Split(text), 0)

\* mutant: raw block markup is written like raw inline markup
event_html_written(st, html) == write_text(st, html)

\* Event::Html(_html)
event_html(st, html) == st

\* Event::InlineHtml(html)
event_inline_html(st, html) == write_text(st, html)

\* Event::FootnoteReference(_)
event_footnote_reference(st) == st

\* Event::SoftBreak
event_soft_break(st) == write_soft_break(st)

\* mutant: the new line is not indented
event_hard_break_bare(st) == write_hard_break(write_text(st, <<"\\">>))

\* Event::HardBreak
event_hard_break(st) ==
    write_indent(write_hard_break(write_text(st, <<"\\">>)))

\* PrettyPrinter::push_event
push_event(st, event) ==
    CASE event.type = "Start" -> start_tag(st, event.tag)
      [] event.type = "End" -> end_tag(st, event.tag)
      [] event.type = "Text" -> event_text(st, event.text)
      [] event.type = "Html" -> event_html(st, event.text)
      [] event.type = "InlineHtml" -> event_inline_html(st, event.text)
      [] event.type = "FootnoteReference" -> event_footnote_reference(st)
      [] event.type = "SoftBreak" -> event_soft_break(st)
      [] event.type = "HardBreak" -> event_hard_break(st)

----------------------------------------------------------------------------
(* The events the model pushes *)

HeaderLevels == {2}
ListStarts == {1, 9, 99}
Notes == {<<>>, <<"r">>}
Texts == {<<NL>>, <<"a">>, <<"a", NL>>, <<"a", NL, "b">>}
Htmls == {<<"<", "i", ">">>}
Urls == {<<"u">>}
Titles == {<<>>, <<"t">>}
Prefixes == {<<>>, <<"/", "/">>}

UnsupportedKinds ==
    {"FootnoteDefinition", "Table", "TableHead", "TableRow", "TableCell"}

Tags ==
    {PlainTag(k) : k \in {"Paragraph", "Rule", "Item", "BlockQuote",
                          "Emphasis", "Strong", "Code"} \cup UnsupportedKinds}
    \cup {Tag("Header", FALSE, n, <<>>, <<>>) : n \in HeaderLevels}
    \cup {Tag("List", FALSE, 0, <<>>, <<>>)}
    \cup {Tag("List", TRUE, n, <<>>, <<>>) : n \in ListStarts}
    \cup {Tag("CodeBlock", FALSE, 0, note, <<>>) : note \in Notes}
    \cup {Tag(k, FALSE, 0, url, title) :
              k \in {"Link", "Image"}, url \in Urls, title \in Titles}

----------------------------------------------------------------------------
(* push_events over a stream of events chosen one at a time *)

\* mutant: the loop goes on after a failure
ContinueAlways(failed) == TRUE

\* the ? of the loop of PrettyPrinter::push_events: the loop goes on only
\* while no push_event has failed
Continue(failed) == ~failed

\* the events of one run: fewer when the sink may fail
Limit == IF failAt = NoFail THEN MaxEvents ELSE MaxFailEvents

\* one push_event call of the loop, on the printer's fields
Push(event) ==
    /\ Continue(err)
    /\ LET r == push_event(Cur, event)
       IN /\ out' = r.out
          /\ needs_space' = r.needs_space
          /\ frames' = r.frames
          /\ needs_break' = r.needs_break
          /\ attempts' = r.attempts
          /\ err' = r.err
          /\ deferredAt' = r.deferredAt
    /\ last' = event
    /\ pushed' = pushed + 1
    /\ UNCHANGED <<prefix, failAt>>

\* PrettyPrinter::new_with_prefix(String::new(), p)
Constructed(p) ==
    /\ out = <<>>
    /\ needs_space = 0
    /\ frames = <<>>
    /\ needs_break = FALSE
    /\ prefix = p
    /\ attempts = 0
    /\ err = FALSE
    /\ deferredAt = {}
    /\ last = NoEvent
    /\ pushed = 0
    /\ open = <<>>

Init == \E p \in Prefixes : Constructed(p) /\ failAt = NoFail

PushStart ==
    \E tag \in Tags :
        pushed < Limit /\ Push(Event("Start", tag, <<>>)) /\ UNCHANGED open

PushEnd ==
    \E tag \in Tags :
        pushed < Limit /\ Push(Event("End", tag, <<>>)) /\ UNCHANGED open

PushText ==
    \E text \in Texts :
        pushed < Limit /\ Push(Event("Text", NoTag, text)) /\ UNCHANGED open

PushHtml ==
    \E html \in Htmls :
        pushed < Limit /\ Push(Event("Html", NoTag, html)) /\ UNCHANGED open

PushInlineHtml ==
    \E html \in Htmls :
        pushed < Limit /\ Push(Event("InlineHtml", NoTag, html)) /\ UNCHANGED open

PushFootnoteReference ==
    pushed < Limit /\ Push(Event("FootnoteReference", NoTag, <<>>))
    /\ UNCHANGED open

PushSoftBreak ==
    pushed < Limit /\ Push(Event("SoftBreak", NoTag, <<>>)) /\ UNCHANGED open

PushHardBreak ==
    pushed < Limit /\ Push(Event("HardBreak", NoTag, <<>>)) /\ UNCHANGED open

Next ==
    \/ PushStart
    \/ PushEnd
    \/ PushText
    \/ PushHtml
    \/ PushInlineHtml
    \/ PushFootnoteReference
    \/ PushSoftBreak
    \/ PushHardBreak

\* any events in any order, into a sink that never fails
Spec == Init /\ [][Next]_vars

\* the same events into a sink that fails at some write
InitFail == \E p \in Prefixes : Constructed(p) /\ failAt \in 0..MaxFailAt

SpecFail == InitFail /\ [][Next]_vars

----------------------------------------------------------------------------
(* push_events over a properly nested stream: every End closes the span    *)
(* opened last, blocks start where blocks may stand, items only in lists,  *)
(* text and hard breaks only in inline content or code                     *)

\* a span that is started and not ended; items counts the Start(Item) events
\* seen so far inside a List span
OpenSpan(tag) == [tag |-> tag, items |-> 0]

Ctx == IF open = <<>> THEN "Document" ELSE open[Len(open)].tag.kind

DocTags ==
    {tag \in Tags : tag.kind \in {"Paragraph", "Rule", "Header", "List",
                                   "Item", "BlockQuote", "CodeBlock"}}

\* the texts of a Text event in a properly nested stream: any text, with or
\* without line feeds, at its end or inside, whatever span holds it
DocTexts == Texts

CanStart(tag) ==
    /\ Len(open) < MaxDepth
    /\ IF tag.kind = "Item" THEN Ctx = "List"
       ELSE Ctx \in {"Document", "BlockQuote", "Item"}

CanEnd(tag) == open # <<>> /\ open[Len(open)].tag = tag

DocStart ==
    \E tag \in DocTags :
        /\ pushed < MaxDocEvents
        /\ CanStart(tag)
        /\ Push(Event("Start", tag, <<>>))
        /\ open' = IF tag.kind = "Item"
                   THEN Append([open EXCEPT ![Len(open)].items = @ + 1],
                               OpenSpan(tag))
                   ELSE Append(open, OpenSpan(tag))

DocEnd ==
    \E tag \in DocTags :
        /\ pushed < MaxDocEvents
        /\ CanEnd(tag)
        /\ Push(Event("End", tag, <<>>))
        /\ open' = SubSeq(open, 1, Len(open) - 1)

DocText ==
    \E text \in DocTexts :
        /\ pushed < MaxDocEvents
        /\ Ctx \in {"Paragraph", "Header", "Item", "CodeBlock"}
        /\ Push(Event("Text", NoTag, text))
        /\ UNCHANGED open

DocHardBreak ==
    /\ pushed < MaxDocEvents
    /\ Ctx \in {"Paragraph", "Header", "Item"}
    /\ Push(Event("HardBreak", NoTag, <<>>))
    /\ UNCHANGED open

NextDoc == DocStart \/ DocEnd \/ DocText \/ DocHardBreak

SpecDoc == Init /\ [][NextDoc]_vars

----------------------------------------------------------------------------
(* Operators the properties are stated with *)

StartOf(kind) == Event("Start", PlainTag(kind), <<>>)
EndOf(kind) == Event("End", PlainTag(kind), <<>>)

\* the number of places of seq that hold c
Count(seq, c) == Cardinality({i \in 1..Len(seq) : seq[i] = c})

\* the place of the last line break of o, 0 if it has none
LastBreak(o) ==
    LET at == {i \in 1..Len(o) : o[i] = NL}
    IN IF at = {} THEN 0 ELSE CHOOSE i \in at : \A j \in at : j <= i

\* the line of o that is being written: what follows its last line break
CurrentLine(o) == SubSeq(o, LastBreak(o) + 1, Len(o))

StartsWith(seq, pre) ==
    Len(seq) >= Len(pre) /\ SubSeq(seq, 1, Len(pre)) = pre

EndsWith(seq, suf) ==
    Len(seq) >= Len(suf) /\ SubSeq(seq, Len(seq) - Len(suf) + 1, Len(seq)) = suf

RECURSIVE SeparatorLine(_, _)
\* the markers of the quotes of fr, outermost first, each after the pend
\* spaces asked for since the last marker: one by a quote, the indentation
\* by a list frame; the spaces asked for after the last marker are left out
SeparatorLine(fr, pend) ==
    IF fr = <<>> THEN <<>>
    ELSE LET f == Head(fr)
         IN IF f.kind = "BlockQuote"
            THEN Repeat(SP, pend) \o <<">">> \o SeparatorLine(Tail(fr), 1)
            ELSE SeparatorLine(Tail(fr),
                     pend + (IF f.some THEN ordered_indent(f.index) ELSE 2))

\* the prefix-less indentation of a line under the frames fr, with the
\* spaces asked for after the last marker
Indentation(fr) ==
    LET s == SeparatorLine(Append(fr, BlockQuoteFrame), 0)
    IN SubSeq(s, 1, Len(s) - 1)

BlockKinds ==
    {"Paragraph", "Rule", "Header", "Item", "List", "BlockQuote", "CodeBlock"}

IsBlockStart(e) == e.type = "Start" /\ e.tag.kind \in BlockKinds
IsBlockEnd(e) == e.type = "End" /\ e.tag.kind \in BlockKinds

----------------------------------------------------------------------------
(* C1 *)

\* C1 (as claimed): with a non-empty prefix, every line of the output written
\* so far, the first one included, begins with the prefix.
C1_EveryLineBeginsWithPrefix ==
    (prefix # <<>> /\ out # <<>>) =>
        \A i \in 1..Len(Split(out)) : StartsWith(Split(out)[i], prefix)

----------------------------------------------------------------------------
(* C2 *)

\* the characters an indentation may hold: those of the prefix, the quote
\* marker and spaces
IsIndentChar(c) == c = SP \/ c = ">" \/ \E i \in 1..Len(prefix) : prefix[i] = c

\* what a block-level Start writes once the separation is written
OpeningMarker(e, top) ==
    CASE e.tag.kind = "Rule" -> <<"-", "-", "-">>
      [] e.tag.kind = "Header" -> Repeat("#", e.tag.num)
      [] e.tag.kind = "BlockQuote" -> <<">">>
      [] e.tag.kind = "CodeBlock" -> <<Backtick, Backtick, Backtick>> \o e.tag.text
      [] e.tag.kind = "Item" ->
            IF top.some THEN ToDigits(top.index) \o <<".">> ELSE <<"-">>
      [] OTHER -> <<>>

\* app, the text one block-level Start appended, is: a line break right after
\* the earlier block, a line of indentation only, a second line break, and
\* then indentation and the marker of the next block with no further break
\* (but for the break that ends the opening fence of a code block)
ExactlyOneBlankLine(app, marker, fenced) ==
    /\ Len(app) >= 2
    /\ app[1] = NL
    /\ Count(app, NL) = IF fenced THEN 3 ELSE 2
    /\ \E j \in 2..Len(app) :
          /\ app[j] = NL
          /\ \A i \in 2..(j - 1) : app[i] # NL /\ IsIndentChar(app[i])
          /\ \E m \in j..Len(app) :
                /\ \A i \in (j + 1)..m : app[i] # NL /\ IsIndentChar(app[i])
                /\ StartsWith(SubSeq(app, m + 1, Len(app)), marker)
                /\ marker = <<>> => m = Len(app)

\* the place of the last character of o that is neither a line break nor a
\* space nor a character of the prefix, 0 if it has none
LastInk(o) ==
    LET ink == {i \in 1..Len(o) :
                   o[i] \notin {NL, SP} \cup {prefix[k] : k \in 1..Len(prefix)}}
    IN IF ink = {} THEN 0 ELSE CHOOSE i \in ink : \A j \in ink : j <= i

\* the line breaks of o after its last character
TrailingBreaks(o) == Count(SubSeq(o, LastInk(o) + 1, Len(o)), NL)

\* C2 (as claimed): in a properly nested stream, when a block-level Start
\* event directly follows a run of block-closing End events, exactly two
\* line breaks stand between the last character of the earlier block and
\* the marker of the next one: the Start writes a line break, a line of
\* indentation only and a second line break, and no line break stood after
\* the last character before.
C2_OneBlankLineBetweenBlocks ==
    [][(IsBlockEnd(last) /\ IsBlockStart(last') /\ LastInk(out) > 0)
        => /\ ExactlyOneBlankLine(
                  SubSeq(out', Len(out) + 1, Len(out')),
                  OpeningMarker(last', IF frames = <<>> THEN BlockQuoteFrame
                                       ELSE frames[Len(frames)]),
                  last'.tag.kind = "CodeBlock")
           /\ TrailingBreaks(out) = 0]_vars

----------------------------------------------------------------------------
(* C3 *)

DeferringKinds == {"Paragraph", "Rule", "Header", "Item", "List", "BlockQuote"}

\* C3 (as claimed): after a block-closing End event the output does not
\* end with a line break, nor with a line break followed by spaces or the
\* prefix only; and an End event of Paragraph, Rule, Heading, Item, List or
\* BlockQuote writes nothing to the sink and sets needs_break, so a run of
\* them leaves the output as it was before the run.
C3_OutputNeverEndsWithBreak ==
    /\ [](IsBlockEnd(last) => TrailingBreaks(out) = 0)
    /\ [][(last'.type = "End" /\ last'.tag.kind \in DeferringKinds
            /\ pushed' = pushed + 1)
           => (out' = out /\ attempts' = attempts /\ needs_break'
               /\ needs_space' = needs_space)]_vars

----------------------------------------------------------------------------
(* C4 *)

\* the place in frames of the frame pushed for the span open[i]
FrameIndex(i) ==
    Cardinality({j \in 1..i : open[j].tag.kind \in {"List", "BlockQuote"}})

\* C4: in a properly nested stream, the frame of every open ordered list
\* started at s holds s plus the number of items rendered so far, whatever
\* was opened and closed inside its items; and the k-th Start(Item) of the
\* list writes the marker s+k-1 followed by a full stop.
C4_SequentialOrdinals ==
    /\ \A i \in 1..Len(open) :
          (open[i].tag.kind = "List" /\ open[i].tag.some) =>
              /\ FrameIndex(i) <= Len(frames)
              /\ frames[FrameIndex(i)]
                     = ListItemSome(open[i].tag.num + open[i].items)
    /\ (last = StartOf("Item") /\ Len(open) >= 2
        /\ open[Len(open) - 1].tag.kind = "List"
        /\ open[Len(open) - 1].tag.some) =>
           LET list == open[Len(open) - 1]
               marker == ToDigits(list.tag.num + list.items - 1) \o <<".">>
           IN /\ EndsWith(out, marker)
              /\ Len(out) > Len(marker) =>
                     \A d \in 1..Len(DigitChars) :
                         out[Len(out) - Len(marker)] # DigitChars[d]

\* the second item of a list started at 9 is rendered as 10, after a block
\* quote was opened and closed inside the first item
C4_Witness ==
    /\ last = StartOf("Item")
    /\ out = <<"9", ".", SP, ">", NL, NL, "1", "0", ".">>

----------------------------------------------------------------------------
(* C5 *)

\* the width of the marker and its space rendered for the span: "- ", "n. "
\* for the item rendered last, "> "
MarkerWidth(span) ==
    CASE span.tag.kind = "BlockQuote" -> 2
      [] span.tag.kind = "List" /\ ~span.tag.some -> 2
      [] span.tag.kind = "List" /\ span.tag.some ->
            Len(ToDigits(span.tag.num + span.items - 1)) + 2
      [] OTHER -> 0

RECURSIVE MarkerWidths(_)
\* the widths of the markers of the open spans, added up
MarkerWidths(spans) ==
    IF spans = <<>> THEN 0
    ELSE MarkerWidth(Head(spans)) + MarkerWidths(Tail(spans))

\* C5 (as claimed): the line that a HardBreak starts inside open list items
\* is indented (written and pending spaces together, after the prefix) by
\* the widths of the markers of the items and quotes it stands in.
C5_IndentMatchesMarker ==
    last.type = "HardBreak" =>
        Len(CurrentLine(out)) + needs_space = Len(prefix) + MarkerWidths(open)

----------------------------------------------------------------------------
(* C6 *)

\* C6 (as claimed): no space written by the flush of pending spaces is the
\* last character of a line, that is, is directly followed by a line break.
C6_NoTrailingDeferredSpace ==
    \A p \in deferredAt : p < Len(out) => out[p + 1] # NL

----------------------------------------------------------------------------
(* C7 *)

\* C7: the failed write is the last call made on the sink (the push_event
\* that made it returns at once, with the failure), and once a push_event
\* has failed push_events pushes no further event and writes nothing more.
C7_FailureStopsEverything ==
    [][/\ err' <=> (failAt # NoFail /\ attempts' > failAt)
       /\ err' => attempts' = failAt + 1
       /\ err => (pushed' = pushed /\ out' = out /\ attempts' = attempts)]_vars

\* the sink failed at its third write, in the middle of the second event
C7_Witness ==
    /\ err
    /\ failAt = 2
    /\ pushed = 2
    /\ attempts = 3
    /\ out # <<>>

----------------------------------------------------------------------------
(* C8 *)

IsUnsupported(e) ==
    \/ e.type \in {"Start", "End"} /\ e.tag.kind \in UnsupportedKinds
    \/ e.type \in {"Html", "FootnoteReference"}

\* C8: an unsupported event, in any state of the printer, succeeds, writes
\* nothing, and leaves needs_break, the frames and the pending spaces alone.
C8_UnsupportedIsNoOp ==
    [][(IsUnsupported(last') /\ pushed' = pushed + 1)
        => (/\ ~err'
            /\ out' = out
            /\ attempts' = attempts
            /\ needs_break' = needs_break
            /\ frames' = frames
            /\ needs_space' = needs_space)]_vars

\* raw block markup is pushed inside an open block quote, with a space pending
C8_Witness ==
    /\ last.type = "Html"
    /\ out = <<">">>
    /\ needs_space = 1
    /\ frames = <<BlockQuoteFrame>>

----------------------------------------------------------------------------
(* C10 *)

IsInlineSpan(e) ==
    e.type \in {"Start", "End"} /\ e.tag.kind \in {"Emphasis", "Strong", "Code"}

Delimiter(kind) ==
    CASE kind = "Emphasis" -> <<"*">>
      [] kind = "Strong" -> <<"*", "*">>
      [] kind = "Code" -> <<Backtick>>

\* C10: Start and End of Emphasis, Strong and InlineCode each write the same
\* delimiter (after the pending spaces): one asterisk, two asterisks, one
\* backtick; needs_break and the frames are left alone.
C10_CanonicalDelimiters ==
    [][(IsInlineSpan(last') /\ pushed' = pushed + 1)
        => (/\ out' = out \o Repeat(SP, needs_space) \o Delimiter(last'.tag.kind)
            /\ needs_space' = 0
            /\ needs_break' = needs_break
            /\ frames' = frames)]_vars

\* emphasis is opened right after a block quote's marker: the pending space
\* and one asterisk are written, the quote's frame stays
C10_Witness ==
    /\ last = StartOf("Emphasis")
    /\ out = <<">", SP, "*">>
    /\ frames = <<BlockQuoteFrame>>

----------------------------------------------------------------------------
(* C11 *)

\* the closing text of a link or an image
Closing(url, title) ==
    IF title = <<>> THEN <<"]", "(">> \o url \o <<")">>
    ELSE <<"]", "(">> \o url \o <<SP, "\"">> \o title \o <<"\"", ")">>

\* C11: End(Link(dest, title)) and End(Image(dest, title)) write the same
\* closing text (after the pending spaces): "](dest)" for an empty title,
\* "](dest "title")" otherwise; Start(Link) writes "[" and Start(Image) "![".
C11_LinkAndImageCloseAlike ==
    [][(last'.tag.kind \in {"Link", "Image"} /\ pushed' = pushed + 1)
        => out' = out \o Repeat(SP, needs_space)
                      \o (IF last'.type = "End"
                          THEN Closing(last'.tag.text, last'.tag.title)
                          ELSE IF last'.tag.kind = "Link" THEN <<"[">>
                               ELSE <<"!", "[">>)]_vars

\* an image with a title is opened and closed
C11_Witness ==
    /\ last = Event("End", Tag("Image", FALSE, 0, <<"u">>, <<"t">>), <<>>)
    /\ out = <<"!", "[", "]", "(", "u", SP, "\"", "t", "\"", ")">>

----------------------------------------------------------------------------
(* C12 *)

\* C12: a Text event writes the pieces of its text between line feeds, one
\* per line: the first after the pending spaces on the current line, every
\* later one, empty or not, on a new line made of the prefix, the markers
\* and the indentation of every open frame, outermost first, and the piece,
\* with nothing else; no space is left pending; a text without line feed is
\* one write of the text (after the write of the pending spaces, if any)
\* and no line break.
C12_TextLinesAreIndented ==
    [][(last'.type = "Text" /\ pushed' = pushed + 1)
        => LET lines == Split(SubSeq(out', Len(out) + 1, Len(out')))
               pieces == Split(last'.text)
           IN /\ Len(lines) = Len(pieces)
              /\ lines[1] = Repeat(SP, needs_space) \o pieces[1]
              /\ \A i \in 2..Len(pieces) :
                     lines[i] = prefix \o Indentation(frames) \o pieces[i]
              /\ needs_space' = 0
              /\ frames' = frames
              /\ Len(pieces) = 1 =>
                     attempts' = attempts + (IF needs_space > 0 THEN 2 ELSE 1)]_vars

\* a text of two lines in an item of a list inside a block quote: the second
\* line stands under the quote marker and the item's indentation
C12_Witness ==
    /\ last = Event("Text", NoTag, <<"a", NL, "b">>)
    /\ out = <<">", SP, "-", SP, "a", NL, ">", SP, SP, SP, "b">>

----------------------------------------------------------------------------
(* C13 *)

\* the places of open that hold a List or a BlockQuote span
Containers == {i \in 1..Len(open) : open[i].tag.kind \in {"List", "BlockQuote"}}

\* C13: after every prefix of a properly nested stream the frames are, in
\* order, the frames of the List and BlockQuote spans that are open: as many
\* frames as such spans (none exactly when none is open), a ListItem frame
\* of the list's kind for a List, a BlockQuote frame for a BlockQuote.
C13_FramesMirrorOpenSpans ==
    /\ Len(frames) = Cardinality(Containers)
    /\ \A i \in Containers :
          LET f == frames[FrameIndex(i)]
          IN IF open[i].tag.kind = "BlockQuote" THEN f = BlockQuoteFrame
             ELSE f.kind = "ListItem" /\ f.some = open[i].tag.some

\* a list opened inside a block quote is closed: the quote's frame is left
C13_Witness ==
    /\ last.type = "End"
    /\ last.tag.kind = "List"
    /\ frames = <<BlockQuoteFrame>>
    /\ Len(open) = 1

----------------------------------------------------------------------------
(* C14 *)

\* the events whose handler runs flush_break in the state with the frames fr
Flushes(e, fr) ==
    /\ e.type = "Start"
    /\ \/ e.tag.kind \in {"Paragraph", "Rule", "Header", "List", "BlockQuote",
                          "CodeBlock"}
       \/ e.tag.kind = "Item" /\ fr # <<>> /\ fr[Len(fr)].kind = "ListItem"

\* the inline events: text, breaks, raw inline markup, inline spans
IsInline(e) ==
    \/ e.type \in {"Text", "SoftBreak", "HardBreak", "InlineHtml"}
    \/ e.type \in {"Start", "End"}
       /\ e.tag.kind \in {"Emphasis", "Strong", "Code", "Link", "Image"}

\* C14: needs_break is false after construction and after every event whose
\* flush_break succeeded, whether it was set or not; it becomes true only by
\* a block-closing End event; inline events never change it.
C14_NeedsBreakLifecycle ==
    /\ ~needs_break
    /\ [][/\ (Flushes(last', frames) /\ pushed' = pushed + 1 /\ ~err')
              => ~needs_break'
          /\ (needs_break' /\ ~needs_break) => IsBlockEnd(last')
          /\ (IsInline(last') /\ pushed' = pushed + 1)
              => needs_break' = needs_break]_vars

\* a paragraph starts after a block was closed: the blank line is written
\* and the flag is cleared
C14_Witness ==
    /\ last = StartOf("Paragraph")
    /\ out = <<NL, NL>>
    /\ ~needs_break

----------------------------------------------------------------------------
(* C15 *)

\* the events whose handler ends with a literal text write
EndsWithTextWrite(e) ==
    \/ e.type \in {"Text", "InlineHtml"}
    \/ e.type \in {"Start", "End"}
       /\ e.tag.kind \in {"Emphasis", "Strong", "Code", "Link", "Image"}
    \/ e.type = "Start" /\ e.tag.kind = "Rule"
    \/ e.type = "End" /\ e.tag.kind = "CodeBlock"

\* the events whose handler ends with write_non_breaking_space, after a
\* literal text write, in the state with the frames fr
EndsWithSpaceRequest(e, fr) ==
    Flushes(e, fr) /\ e.tag.kind \in {"Header", "BlockQuote", "Item"}

\* the writer's primitives, applied in the current state
PendingSpacePrimitives ==
    /\ LET n == write_non_breaking_space(Cur)
       IN n.out = out /\ n.attempts = attempts
          /\ n.needs_space = needs_space + 1
    /\ LET h == write_hard_break(Cur)
       IN h.needs_space = 0 /\ h.out = out \o <<NL>>
    /\ LET s == write_soft_break(Cur)
       IN s.needs_space = 0 /\ s.out = out \o <<SP>>
    /\ \A t \in Texts \cup {<<>>} :
          LET w == write_text(Cur, t)
          IN w.needs_space = 0 /\ w.out = out \o Repeat(SP, needs_space) \o t

\* C15: in every state write_non_breaking_space writes nothing and adds one
\* to the pending spaces, a hard break, a soft break and a literal text
\* write leave none pending, and a text write puts exactly the pending
\* spaces before its text; so a SoftBreak event and every event that ends
\* with a text write leave none pending, and an event that ends with a
\* space request after a text write leaves exactly one.
C15_PendingSpaces ==
    /\ [](~err => PendingSpacePrimitives)
    /\ [][/\ (last'.type = "SoftBreak" /\ pushed' = pushed + 1)
              => (needs_space' = 0 /\ out' = out \o <<SP>>)
          /\ (EndsWithTextWrite(last') /\ pushed' = pushed + 1)
              => needs_space' = 0
          /\ (EndsWithSpaceRequest(last', frames) /\ pushed' = pushed + 1)
              => needs_space' = 1]_vars

\* a soft break right after a quote marker: the pending space is dropped and
\* the space of the soft break is written
C15_Witness ==
    /\ last.type = "SoftBreak"
    /\ out = <<">", SP>>
    /\ needs_space = 0
    /\ deferredAt = {}

----------------------------------------------------------------------------
(* C16 *)

\* the frames that are on the stack when the event e runs flush_break:
\* Start(Item) has popped the frame of its list by then
FlushFrames(e, fr) ==
    IF e.tag.kind = "Item" THEN SubSeq(fr, 1, Len(fr) - 1) ELSE fr

\* C16: when a block-level Start event flushes a pending break while quotes
\* or lists are open, it writes a line break, then a line made of the prefix
\* and the markers of the open quotes (each after the indentation of the
\* list frames outside it) that does not end with a space, then a second
\* line break, and the line after begins with the same prefix and markers.
C16_SeparatorLineCarriesMarkers ==
    [][(/\ Flushes(last', frames)
        /\ pushed' = pushed + 1
        /\ needs_break
        /\ FlushFrames(last', frames) # <<>>)
       => LET app == SubSeq(out', Len(out) + 1, Len(out'))
              sep == prefix \o SeparatorLine(FlushFrames(last', frames), 0)
          IN /\ StartsWith(app, <<NL>> \o sep \o <<NL>> \o sep)
             /\ sep # <<>> => sep[Len(sep)] # SP
             /\ Count(sep, ">")
                    = Count([i \in 1..Len(FlushFrames(last', frames)) |->
                                FlushFrames(last', frames)[i].kind],
                            "BlockQuote")]_vars

\* a second rule in a quote in a list item: the separator line is the
\* indentation of the item and the marker of the quote, with no space after
C16_Witness ==
    /\ last = StartOf("Rule")
    /\ frames = <<ListItemNone, BlockQuoteFrame>>
    /\ out = <<"-", SP, ">", SP, "-", "-", "-", NL,
               SP, SP, ">", NL,
               SP, SP, ">", SP, "-", "-", "-">>

----------------------------------------------------------------------------
(* C17 *)

\* C17: a Start(Item) with a ListItem frame on top writes its marker after
\* the pending spaces on the current line when no break is pending, and
\* otherwise on a new line indented by the frames below the list's own frame
\* only; after it the frames are as before, but for the ordinal of an
\* ordered list, which is one more; one space is pending.
C17_ItemMarkerOutsideOwnFrame ==
    [][(/\ last' = StartOf("Item")
        /\ pushed' = pushed + 1
        /\ frames # <<>>
        /\ frames[Len(frames)].kind = "ListItem")
       => LET top == frames[Len(frames)]
              below == SubSeq(frames, 1, Len(frames) - 1)
              marker == OpeningMarker(last', top)
          IN /\ frames' = Append(below, IF top.some
                                         THEN ListItemSome(top.index + 1)
                                         ELSE ListItemNone)
             /\ needs_space' = 1
             /\ ~needs_break'
             /\ IF needs_break
                THEN /\ CurrentLine(out')
                            = prefix \o Indentation(below) \o marker
                     /\ Count(out', NL) = Count(out, NL) + 2
                ELSE out' = out \o Repeat(SP, needs_space) \o marker]_vars

\* the second item of an ordered list in an item of a bullet list: its
\* marker is indented by the bullet item only
C17_Witness ==
    /\ last = StartOf("Item")
    /\ frames = <<ListItemNone, ListItemSome(3)>>
    /\ out = <<"-", SP, "1", ".", NL, NL, SP, SP, "2", ".">>

----------------------------------------------------------------------------
(* C18 *)

\* the characters that only the text of a Text event brings to the output
TextChars == {"a", "b"}

\* C18 (as claimed): when the output ends with the text of a Text event,
\* whatever a block-level Start event writes next begins with a line break,
\* also when no block-closing End event came in between.
C18_BlocksStartOnNewLine ==
    [][(/\ out # <<>>
        /\ out[Len(out)] \in TextChars
        /\ IsBlockStart(last')
        /\ pushed' = pushed + 1
        /\ Len(out') > Len(out))
       => out'[Len(out) + 1] = NL]_vars

----------------------------------------------------------------------------
(* C19 *)

\* C19: a Start(Item) that finds no ListItem frame on top of the stack (a
\* BlockQuote frame, or no frame) succeeds and writes nothing: the output,
\* the calls of the sink, the pending spaces and needs_break are as before;
\* the frame on top, if any, is gone and nothing is pushed in its place.
C19_StrayItemDropsFrame ==
    [][(/\ last' = StartOf("Item")
        /\ pushed' = pushed + 1
        /\ (frames = <<>> \/ frames[Len(frames)].kind # "ListItem"))
       => /\ ~err'
          /\ out' = out
          /\ attempts' = attempts
          /\ needs_space' = needs_space
          /\ needs_break' = needs_break
          /\ frames' = IF frames = <<>> THEN <<>>
                       ELSE SubSeq(frames, 1, Len(frames) - 1)]_vars

\* a Start(Item) right after the marker of a quote: the frame of the quote
\* is gone, the marker and its pending space are all there is
C19_Witness ==
    /\ last = StartOf("Item")
    /\ pushed = 2
    /\ frames = <<>>
    /\ out = <<">">>
    /\ needs_space = 1

----------------------------------------------------------------------------
(* C20 *)

\* the number of tens in n
Tens(n) == Cardinality({k \in 1..n : k % 10 = 0})

\* the spaces a list frame asks for: by the claim the digits of the ordinal
\* and three, by the amended claim the tens in the ordinal and three
FrameWidth(f, claimed) ==
    IF ~f.some THEN 2
    ELSE IF claimed THEN Len(ToDigits(f.index)) + 3 ELSE Tens(f.index) + 3

RECURSIVE PendingIndent(_, _, _)
\* the spaces pending after the indentation of the frames fr, outermost
\* first, with p pending so far: a quote writes what is pending with its
\* marker and asks for one, a list frame adds its width
PendingIndent(fr, p, claimed) ==
    IF fr = <<>> THEN p
    ELSE IF Head(fr).kind = "BlockQuote" THEN PendingIndent(Tail(fr), 1, claimed)
         ELSE PendingIndent(Tail(fr), p + FrameWidth(Head(fr), claimed), claimed)

\* one iteration of write_indent for each frame of the stack, taken in the
\* current state
IndentSteps(claimed) ==
    \A i \in 1..Len(frames) :
        LET f == frames[i]
            r == indent_frame(Cur, f)
        IN IF f.kind = "BlockQuote"
           THEN /\ r.out = out \o Repeat(SP, needs_space) \o <<">">>
                /\ r.needs_space = 1
           ELSE /\ r.out = out
                /\ r.needs_space = needs_space + FrameWidth(f, claimed)

\* the indentation a HardBreak event ends with leaves pending what the
\* frames add up to
IndentAfterHardBreak(claimed) ==
    (last'.type = "HardBreak" /\ pushed' = pushed + 1)
        => needs_space' = PendingIndent(frames, 0, claimed)

\* C20 (as claimed): in write_indent a ListItem(Some(n)) frame adds the
\* number of decimal digits of n plus 3 to the pending spaces, a
\* ListItem(None) frame adds 2, a BlockQuote frame writes its marker at once
\* and leaves 1 pending.
C20_OrderedIndentIsDigitsPlusThree ==
    /\ [](~err => IndentSteps(TRUE))
    /\ [][IndentAfterHardBreak(TRUE)]_vars

\* C20 (amended): in write_indent a ListItem(Some(n)) frame adds the number
\* of tens in n (n div 10) plus 3 to the pending spaces: 3 for n below 10,
\* 4 for n from 10 to 19; a ListItem(None) frame adds 2, a BlockQuote frame
\* writes its marker at once, after the spaces pending, and leaves 1 pending.
C20_OrderedIndentIsTensPlusThree ==
    /\ [](~err => IndentSteps(FALSE))
    /\ [][IndentAfterHardBreak(FALSE)]_vars

\* a hard break in the item 99 of an ordered list: the frame holds 100 and
\* thirteen spaces are pending, where digits plus three is six
C20_Witness ==
    /\ last.type = "HardBreak"
    /\ frames = <<ListItemSome(100)>>
    /\ out = <<"9", "9", ".", SP, "\\", NL>>
    /\ needs_space = 13

----------------------------------------------------------------------------
(* C21 *)

\* C21: a HardBreak event writes, after the spaces pending, a backslash,
\* then a line break, then the prefix and the markers of the open quotes
\* with the indentation of the list frames outside them; the spaces the
\* frames ask for after the last marker are pending; needs_break and the
\* frames are as before. A Text event that comes next puts its first line
\* on that new line, after the prefix and the indentation of every frame.
C21_HardBreakStartsIndentedLine ==
    [][/\ (last'.type = "HardBreak" /\ pushed' = pushed + 1)
           => /\ out' = out \o Repeat(SP, needs_space) \o <<"\\", NL>>
                            \o prefix \o SeparatorLine(frames, 0)
              /\ needs_space' = PendingIndent(frames, 0, FALSE)
              /\ needs_break' = needs_break
              /\ frames' = frames
       /\ (last.type = "HardBreak" /\ last'.type = "Text"
                                   /\ pushed' = pushed + 1)
           => /\ StartsWith(SubSeq(out', LastBreak(out) + 1, Len(out')),
                            prefix \o Indentation(frames)
                                   \o Head(Split(last'.text)))
              /\ out[LastBreak(out) - 1] = "\\"]_vars

\* a hard break in a paragraph in a quote, and the text after it: the new
\* line begins with the marker of the quote
C21_Witness ==
    /\ last.type = "Text"
    /\ frames = <<BlockQuoteFrame>>
    /\ out = <<">", SP, "a", "\\", NL, ">", SP, "a">>

====
